---- MODULE Spec2Model ----
(***************************************************************************)
(* dll-bundler: a model of src/dll-bundler.cpp.                            *)
(*                                                                         *)
(* The program parses its command line, reads the import tables of the     *)
(* root binary, and then walks a queue of module names: each name is       *)
(* lower-cased, looked up in the set of processed names, searched for in   *)
(* the -L directories (findImport / checkFileArchitecture), copied next to *)
(* the root binary and parsed for its own imports (getDllImports).         *)
(*                                                                         *)
(* Strings are sequences of character codes, so that lower-casing and the  *)
(* case-insensitive comparison are computed and not assumed.  A path is a  *)
(* record [dir, name]: the directory part as it was spelled on the command *)
(* line and the file name of the entry.  The file system maps a directory  *)
(* to its entries in enumeration order; file names are case-sensitive.     *)
(***************************************************************************)
EXTENDS Integers, Sequences, FiniteSets, TLC

(***************************************************************************)
(* Bounds of the model.                                                    *)
(***************************************************************************)
MaxImports == 2   \* entries of one import table
MaxEntries == 2   \* files of one search directory in the initial state
MaxRuns == 2      \* invocations of the program on the same file system
MaxFaults == 1    \* copies that fail in one behaviour

(***************************************************************************)
(* Strings.                                                                *)
(***************************************************************************)
chA == <<65>>     \* "A"
cha == <<97>>     \* "a"
chb == <<98>>     \* "b"
chr == <<114>>    \* "r", the file name of the root binary
chR == <<82>>     \* "R"

\* llvm::toLower on one character: 'A'..'Z' map to 'a'..'z'.
toLower(c) == IF c \in 65..90 THEN c + 32 ELSE c

\* llvm::StringRef::lower().
Lower(s) == [i \in DOMAIN s |-> toLower(s[i])]

\* llvm::StringRef::equals_insensitive (equals_lower before LLVM 13).
equals_insensitive(s, t) ==
    /\ Len(s) = Len(t)
    /\ \A i \in DOMAIN s : toLower(s[i]) = toLower(t[i])

(***************************************************************************)
(* Files.  A file's data is either a COFF object with an architecture, an  *)
(* import directory table and a delay-import directory table, or something *)
(* COFFObjectFile::create rejects.  A table entry either has a decodable   *)
(* name or not.                                                            *)
(***************************************************************************)
Archs == {"x86_64", "i386"}
UnknownArch == "unknown"

NotCOFF == [kind |-> "text"]
Entry(n) == [ok |-> TRUE, name |-> n]
Undecodable == [ok |-> FALSE, name |-> <<>>]
Entries(l) == [i \in DOMAIN l |-> Entry(l[i])]
COFF(a, imp, dly) == [kind |-> "coff", arch |-> a, imports |-> imp, delay |-> dly]
File(n, d) == [name |-> n, data |-> d]

\* The directories that exist; "nodir" is a search path that cannot be opened.
DirIds == {"root", "lib1", "lib2"}
EmptyPath == [dir |-> "", name |-> <<>>]
Path(d, n) == [dir |-> d, name |-> n]

\* A line of output: its kind and the paths it names.
Line(t, a, b) == [t |-> t, a |-> a, b |-> b]
Msg(t) == Line(t, EmptyPath, EmptyPath)

\* llvm::sys::path::parent_path and llvm::sys::path::filename.
parent_path(p) == p.dir
filename(p) == p.name

\* llvm::MemoryBuffer::getFile: the data of the file, or an error.
HasFile(f, p) ==
    /\ p.dir \in DOMAIN f
    /\ \E i \in DOMAIN f[p.dir] : f[p.dir][i].name = p.name
getFile(f, p) ==
    IF HasFile(f, p)
    THEN [err |-> FALSE,
          data |-> f[p.dir][CHOOSE i \in DOMAIN f[p.dir] : f[p.dir][i].name = p.name].data]
    ELSE [err |-> TRUE, data |-> NotCOFF]

\* openCOFFObject: an error unless the buffer holds a COFF object.
openCOFFObject(mb) ==
    IF mb.kind = "coff" THEN [err |-> FALSE, obj |-> mb]
    ELSE [err |-> TRUE, obj |-> mb]

\* The names of a directory table whose getName succeeds, in table order.
RECURSIVE DecodedNames(_)
DecodedNames(tbl) ==
    IF tbl = <<>> THEN <<>>
    ELSE (IF Head(tbl).ok THEN <<Head(tbl).name>> ELSE <<>>) \o DecodedNames(Tail(tbl))

\* The diagnostics getDllImports writes for the entries whose getName fails.
RECURSIVE DecodeErrors(_)
DecodeErrors(tbl) ==
    IF tbl = <<>> THEN <<>>
    ELSE (IF Head(tbl).ok THEN <<>> ELSE <<Msg("name_error")>>) \o DecodeErrors(Tail(tbl))

\* getDllImports reading the delay-import table before the import table.
getDllImports_DelayFirst(f, filePath) ==
    LET source == getFile(f, filePath)
        object == openCOFFObject(source.data)
    IN  IF source.err \/ object.err
        THEN [err |-> TRUE, arch |-> UnknownArch, imports |-> <<>>, diag |-> <<>>]
        ELSE [err |-> FALSE,
              arch |-> object.obj.arch,
              imports |-> DecodedNames(object.obj.delay) \o DecodedNames(object.obj.imports),
              diag |-> DecodeErrors(object.obj.delay) \o DecodeErrors(object.obj.imports)]

\* getDllImports: an error, or the file's architecture and import names.
getDllImports(f, filePath) ==
    LET source == getFile(f, filePath)
        object == openCOFFObject(source.data)
    IN  IF source.err \/ object.err
        THEN [err |-> TRUE, arch |-> UnknownArch, imports |-> <<>>, diag |-> <<>>]
        ELSE [err |-> FALSE,
              arch |-> object.obj.arch,
              imports |-> DecodedNames(object.obj.imports) \o DecodedNames(object.obj.delay),
              diag |-> DecodeErrors(object.obj.imports) \o DecodeErrors(object.obj.delay)]

\* checkFileArchitecture.
checkFileArchitecture_AnyArch(f, filePath, dllArch) ==
    ~getFile(f, filePath).err /\ ~openCOFFObject(getFile(f, filePath).data).err

\* checkFileArchitecture accepting a file that is not a COFF object.
checkFileArchitecture_UnparsableMatches(f, filePath, dllArch) ==
    LET source == getFile(f, filePath)
        object == openCOFFObject(source.data)
    IN  IF source.err THEN FALSE
        ELSE IF object.err THEN TRUE
        ELSE object.obj.arch = dllArch

checkFileArchitecture(f, filePath, dllArch) ==
    LET source == getFile(f, filePath)
        object == openCOFFObject(source.data)
    IN  IF source.err THEN FALSE
        ELSE IF object.err THEN FALSE
        ELSE object.obj.arch = dllArch

\* The inner loop of findImport returning the first file that matches the
\* name, whatever it holds.
RECURSIVE ScanDir_NoArchCheck(_, _, _, _, _, _)
ScanDir_NoArchCheck(f, dir, i, dllImport, dllArch, skipped) ==
    IF i > Len(f[dir]) THEN [path |-> EmptyPath, skipped |-> skipped]
    ELSE LET filePath == Path(dir, f[dir][i].name)
             fileName == filename(filePath)
         IN  IF equals_insensitive(fileName, dllImport)
             THEN [path |-> filePath, skipped |-> skipped]
             ELSE ScanDir_NoArchCheck(f, dir, i + 1, dllImport, dllArch, skipped)

\* The inner loop of findImport over the entries of one directory, from
\* entry i on: the path returned (EmptyPath when the directory is exhausted)
\* and the "Skipped:" lines written on the way.
RECURSIVE ScanDir(_, _, _, _, _, _)
ScanDir(f, dir, i, dllImport, dllArch, skipped) ==
    IF i > Len(f[dir]) THEN [path |-> EmptyPath, skipped |-> skipped]
    ELSE LET filePath == Path(dir, f[dir][i].name)
             fileName == filename(filePath)
         IN  IF equals_insensitive(fileName, dllImport)
             THEN IF ~checkFileArchitecture(f, filePath, dllArch)
                  THEN ScanDir(f, dir, i + 1, dllImport, dllArch, Append(skipped, filePath))
                  ELSE [path |-> filePath, skipped |-> skipped]
             ELSE ScanDir(f, dir, i + 1, dllImport, dllArch, skipped)

\* findImport giving up at the first directory that cannot be opened.
RECURSIVE ScanPaths_StopAtUnopenable(_, _, _, _, _, _, _)
ScanPaths_StopAtUnopenable(f, searchPaths, k, dllImport, dllArch, skipped, opened) ==
    IF k > Len(searchPaths)
    THEN [path |-> EmptyPath, skipped |-> skipped, opened |-> opened]
    ELSE LET dir == searchPaths[k]
         IN  IF dir \notin DOMAIN f
             THEN [path |-> EmptyPath, skipped |-> skipped, opened |-> opened]
             ELSE LET r == ScanDir(f, dir, 1, dllImport, dllArch, skipped)
                  IN  IF r.path # EmptyPath
                      THEN [path |-> r.path, skipped |-> r.skipped,
                            opened |-> Append(opened, k)]
                      ELSE ScanPaths_StopAtUnopenable(f, searchPaths, k + 1, dllImport,
                                                      dllArch, r.skipped, Append(opened, k))

\* findImport from search path k on: the path found (EmptyPath for the empty
\* string), the "Skipped:" lines, and the directories whose iterator was
\* opened.  A directory that cannot be opened is passed over.
RECURSIVE ScanPaths(_, _, _, _, _, _, _)
ScanPaths(f, searchPaths, k, dllImport, dllArch, skipped, opened) ==
    IF k > Len(searchPaths)
    THEN [path |-> EmptyPath, skipped |-> skipped, opened |-> opened]
    ELSE LET dir == searchPaths[k]
         IN  IF dir \notin DOMAIN f
             THEN ScanPaths(f, searchPaths, k + 1, dllImport, dllArch, skipped, opened)
             ELSE LET r == ScanDir(f, dir, 1, dllImport, dllArch, skipped)
                  IN  IF r.path # EmptyPath
                      THEN [path |-> r.path, skipped |-> r.skipped,
                            opened |-> Append(opened, k)]
                      ELSE ScanPaths(f, searchPaths, k + 1, dllImport, dllArch,
                                     r.skipped, Append(opened, k))

Reverse(q) == [i \in DOMAIN q |-> q[Len(q) + 1 - i]]
findImport_LastPathFirst(f, dllImport, dllArch, searchPaths) ==
    ScanPaths(f, Reverse(searchPaths), 1, dllImport, dllArch, <<>>, <<>>)

findImport(f, dllImport, dllArch, searchPaths) ==
    ScanPaths(f, searchPaths, 1, dllImport, dllArch, <<>>, <<>>)

(***************************************************************************)
(* The file system operations of the copy.                                 *)
(***************************************************************************)
IndexOf(f, p) == CHOOSE i \in DOMAIN f[p.dir] : f[p.dir][i].name = p.name

\* The file system after data d was written to path p: an existing file
\* keeps its directory entry, a new file is enumerated after the entries
\* the directory had.
WriteFile(f, p, d) ==
    IF HasFile(f, p)
    THEN [f EXCEPT ![p.dir][IndexOf(f, p)].data = d]
    ELSE [f EXCEPT ![p.dir] = Append(f[p.dir], File(p.name, d))]

\* The outcomes of llvm::sys::fs::copy_file(From, To).  It opens From for
\* reading, opens To for writing (created or truncated), and copies the
\* bytes.  "ok": To holds From's bytes.  "failed": To could not be opened,
\* nothing changed.  "partial": the write stopped early.  When From and To
\* are the same file, opening To truncates the file before it is read
\* ("truncated"), or the platform's copy leaves it alone ("unchanged").
CopyOutcomes(from, to) ==
    IF from = to THEN {"truncated", "unchanged"} ELSE {"ok", "failed", "partial"}

FailedOutcome(o) == o \in {"failed", "partial"}

copy_file(f, from, to, outcome) ==
    CASE outcome = "ok" -> WriteFile(f, to, getFile(f, from).data)
      [] outcome = "partial" -> WriteFile(f, to, NotCOFF)
      [] outcome = "truncated" -> WriteFile(f, to, NotCOFF)
      [] OTHER -> f

(***************************************************************************)
(* The command line.  argv.opts are the options in the order getopt        *)
(* returns them, argv.pos the positional arguments left at optind.         *)
(***************************************************************************)
OptH == [o |-> "h", arg |-> ""]
OptL(d) == [o |-> "L", arg |-> d]
OptBad == [o |-> "?", arg |-> ""]

\* The getopt loop of main: whether it returned -1, wantHelp, and the
\* search paths pushed so far.
RECURSIVE ParseOpts(_, _, _)
ParseOpts(opts, wantHelp, paths) ==
    IF opts = <<>> THEN [bad |-> FALSE, wantHelp |-> wantHelp, paths |-> paths]
    ELSE CASE Head(opts).o = "h" -> ParseOpts(Tail(opts), TRUE, paths)
           [] Head(opts).o = "L" -> ParseOpts(Tail(opts), wantHelp, Append(paths, Head(opts).arg))
           [] OTHER -> [bad |-> TRUE, wantHelp |-> wantHelp, paths |-> paths]

\* argc < 2: no option and no positional argument.
NoArguments(av) == av.opts = <<>> /\ av.pos = <<>>

ParseArgs(av) ==
    IF NoArguments(av) THEN [bad |-> FALSE, wantHelp |-> TRUE, paths |-> <<>>]
    ELSE ParseOpts(av.opts, FALSE, <<>>)

(***************************************************************************)
(* State.                                                                  *)
(***************************************************************************)
VARIABLES
    argv,            \* the command line of every run
    fs,              \* the file system
    pc,              \* position of main: "start", "open_root", "loop", "exit"
    exitCode,        \* the value main returned (2 while it runs)
    dllSearchPaths,  \* main's dllSearchPaths
    rootBinaryFile,  \* main's rootBinaryFile
    rootBinaryDir,   \* main's rootBinaryDir
    dllArch,         \* main's dllArch
    created,         \* processed and toProcess have been constructed
    processed,       \* main's processed
    toProcess,       \* main's toProcess
    outs,            \* lines written to llvm::outs()
    errs,            \* lines written to llvm::errs()
    located,         \* the findImport calls of this run and their results
    copies,          \* the copy_file calls of this run and their outcomes
    dequeued,        \* the names popped from toProcess in this run, as spelled
    run,             \* number of the current invocation
    faults,          \* copies that failed so far
    fs0,             \* the file system when this run started
    prev             \* what the previous run left behind

vars == <<argv, fs, pc, exitCode, dllSearchPaths, rootBinaryFile, rootBinaryDir,
          dllArch, created, processed, toProcess, outs, errs, located, copies,
          dequeued, run, faults, fs0, prev>>

\* The value main returned: <<>> while it runs.
Running == <<>>
Returned(c) == <<c>>

RECURSIVE SkippedLines(_)
SkippedLines(ps) ==
    IF ps = <<>> THEN <<>> ELSE <<Line("skipped", Head(ps), EmptyPath)>> \o SkippedLines(Tail(ps))

NoPrev == [copies |-> <<>>, listing |-> <<>>, exitCode |-> Running]

(***************************************************************************)
(* The initial states: a command line and a file system.  Five families    *)
(* of inputs are drawn.                                                    *)
(*   InitUsage:  every shape of command line, over a small file system.    *)
(*   InitGraph:  every import graph over the modules a and b (tables of up *)
(*               to MaxImports names spelled "a", "A" or "b"), with the    *)
(*               files A and b in two search directories.                  *)
(*   InitLayout: every layout of up to MaxEntries files named a or A, of   *)
(*               either architecture or unparsable, in each of two search  *)
(*               directories, under every search path list of up to two    *)
(*               of lib1, lib2, the root binary's directory and a          *)
(*               directory that cannot be opened.                          *)
(*   InitTables: every pair of an import table and a delay-import table of *)
(*               up to MaxImports entries in the root binary, an entry     *)
(*               being a name or undecodable.                              *)
(*   InitSelfImport: a dependency that imports the root binary, whose      *)
(*               directory is a search directory.                          *)
(***************************************************************************)
ImportNames == {cha, chA, chb}
SeqsUpTo(S, n) == UNION {[1..k -> S] : k \in 0..n}
ImportLists == SeqsUpTo(ImportNames, MaxImports)

RootPath == Path("root", chr)
Image(a, l) == COFF(a, Entries(l), <<>>)
NewFs(root, l1, l2) == [d \in DirIds |-> CASE d = "root" -> root [] d = "lib1" -> l1 [] OTHER -> l2]

UsageOpts == {<<>>, <<OptH>>, <<OptBad>>, <<OptL("lib1")>>, <<OptL("lib1"), OptH>>,
              <<OptL("lib1"), OptBad>>, <<OptH, OptBad>>, <<OptBad, OptH>>}
UsagePos == {<<>>, <<RootPath>>, <<RootPath, RootPath>>}
UsageRoots == {<<>>, <<File(chr, NotCOFF)>>, <<File(chr, Image("x86_64", <<cha>>))>>}

InitUsage ==
    /\ argv \in [opts : UsageOpts, pos : UsagePos]
    /\ \E r \in UsageRoots :
         fs = NewFs(r, <<File(cha, Image("x86_64", <<>>))>>, <<>>)

InitGraph ==
    /\ argv = [opts |-> <<OptL("lib1"), OptL("lib2")>>, pos |-> <<RootPath>>]
    /\ \E li \in ImportLists :
       \E l1 \in {<<>>} \cup {<<File(chA, Image("x86_64", l))>> : l \in ImportLists} :
       \E l2 \in {<<>>} \cup {<<File(chb, Image("x86_64", l))>> : l \in ImportLists} :
         fs = NewFs(<<File(chr, Image("x86_64", li))>>, l1, l2)

LayoutNames == {cha, chA}
LayoutData == {NotCOFF, Image("i386", <<>>), Image("x86_64", <<chb>>)}
LayoutFiles == {File(n, d) : n \in LayoutNames, d \in LayoutData}
DistinctNames(l) == \A i, j \in DOMAIN l : i # j => l[i].name # l[j].name
Listings == {l \in SeqsUpTo(LayoutFiles, MaxEntries) : DistinctNames(l)}
SearchDirs == {"lib1", "lib2", "root", "nodir"}
Distinct(l) == \A i, j \in DOMAIN l : i # j => l[i] # l[j]
PathLists == {l \in SeqsUpTo(SearchDirs, 2) : l # <<>> /\ Distinct(l)}
RECURSIVE OptsL(_)
OptsL(l) == IF l = <<>> THEN <<>> ELSE <<OptL(Head(l))>> \o OptsL(Tail(l))

\* A search directory that is not on the command line is left empty: the
\* program never opens it.
ListingsOf(d, l) == IF \E i \in DOMAIN l : l[i] = d THEN Listings ELSE {<<>>}

InitLayout ==
    \E l \in PathLists : \E a \in Archs :
    \E l1 \in ListingsOf("lib1", l) : \E l2 \in ListingsOf("lib2", l) :
        /\ argv = [opts |-> OptsL(l), pos |-> <<RootPath>>]
        /\ fs = NewFs(<<File(chr, Image(a, <<chA>>))>>, l1, l2)

\* Import tables with delay-load entries and entries whose name cannot be
\* decoded: the root binary has any two tables of up to MaxImports entries,
\* and the one search directory holds a module with such tables as well.
TableEntries == {Entry(cha), Entry(chb), Undecodable}
Tables == SeqsUpTo(TableEntries, MaxImports)
InitTables ==
    /\ argv = [opts |-> <<OptL("lib1")>>, pos |-> <<RootPath>>]
    /\ \E imp \in Tables : \E dly \in Tables :
         fs = NewFs(<<File(chr, COFF("x86_64", imp, dly))>>,
                    <<File(cha, COFF("x86_64", <<Entry(chb)>>, <<Undecodable, Entry(chA)>>))>>,
                    <<>>)

\* A dependency that imports the root binary by name, with the root
\* binary's directory among the search directories.
InitSelfImport ==
    \E l \in {<<"lib1", "root">>, <<"root", "lib1">>} : \E n \in {chr, chR} :
        /\ argv = [opts |-> OptsL(l), pos |-> <<RootPath>>]
        /\ fs = NewFs(<<File(chr, Image("x86_64", <<cha>>))>>,
                      <<File(cha, Image("x86_64", <<n>>))>>, <<>>)

\* The state of a process before main's first statement.
Fresh ==
    /\ pc = "start"
    /\ exitCode = Running
    /\ dllSearchPaths = <<>>
    /\ rootBinaryFile = EmptyPath
    /\ rootBinaryDir = ""
    /\ dllArch = UnknownArch
    /\ created = FALSE
    /\ processed = {}
    /\ toProcess = <<>>
    /\ outs = <<>>
    /\ errs = <<>>
    /\ located = <<>>
    /\ copies = <<>>
    /\ dequeued = <<>>

Init ==
    /\ InitUsage \/ InitGraph \/ InitLayout \/ InitTables \/ InitSelfImport
    /\ Fresh
    /\ run = 1
    /\ faults = 0
    /\ fs0 = fs
    /\ prev = NoPrev

(***************************************************************************)
(* main, lines 23-56: the command line.                                    *)
(***************************************************************************)
Exit(c) ==
    /\ pc' = "exit"
    /\ exitCode' = Returned(c)

\* An unknown option: return -1.
BadOption ==
    /\ pc = "start"
    /\ ParseArgs(argv).bad
    /\ dllSearchPaths' = ParseArgs(argv).paths
    /\ Exit(-1)
    /\ UNCHANGED <<argv, fs, rootBinaryFile, rootBinaryDir, dllArch, created, processed,
                   toProcess, outs, errs, located, copies, dequeued, run, faults, fs0, prev>>

\* -h, or no argument at all: the usage text and return 0.
Help ==
    /\ pc = "start"
    /\ ~ParseArgs(argv).bad
    /\ ParseArgs(argv).wantHelp
    /\ dllSearchPaths' = ParseArgs(argv).paths
    /\ outs' = Append(outs, Msg("usage"))
    /\ Exit(0)
    /\ UNCHANGED <<argv, fs, rootBinaryFile, rootBinaryDir, dllArch, created, processed,
                   toProcess, errs, located, copies, dequeued, run, faults, fs0, prev>>

\* argc - optind # 1: "Please indicate the binary file." and return 1.
NoBinaryFile ==
    /\ pc = "start"
    /\ ~ParseArgs(argv).bad
    /\ ~ParseArgs(argv).wantHelp
    /\ Len(argv.pos) # 1
    /\ dllSearchPaths' = ParseArgs(argv).paths
    /\ errs' = Append(errs, Msg("no_binary_file"))
    /\ Exit(1)
    /\ UNCHANGED <<argv, fs, rootBinaryFile, rootBinaryDir, dllArch, created, processed,
                   toProcess, outs, located, copies, dequeued, run, faults, fs0, prev>>

\* No -L: "Please indicate at least one DLL search path." and return 1.
NoSearchPath_Unchecked ==
    /\ pc = "start"
    /\ ~ParseArgs(argv).bad
    /\ ~ParseArgs(argv).wantHelp
    /\ Len(argv.pos) = 1
    /\ ParseArgs(argv).paths = <<>>
    /\ dllSearchPaths' = ParseArgs(argv).paths
    /\ rootBinaryFile' = argv.pos[1]
    /\ rootBinaryDir' = parent_path(argv.pos[1])
    /\ pc' = "open_root"
    /\ UNCHANGED <<argv, fs, exitCode, dllArch, created, processed, toProcess, outs,
                   errs, located, copies, dequeued, run, faults, fs0, prev>>

NoSearchPath ==
    /\ pc = "start"
    /\ ~ParseArgs(argv).bad
    /\ ~ParseArgs(argv).wantHelp
    /\ Len(argv.pos) = 1
    /\ ParseArgs(argv).paths = <<>>
    /\ dllSearchPaths' = ParseArgs(argv).paths
    /\ errs' = Append(errs, Msg("no_search_path"))
    /\ Exit(1)
    /\ UNCHANGED <<argv, fs, rootBinaryFile, rootBinaryDir, dllArch, created, processed,
                   toProcess, outs, located, copies, dequeued, run, faults, fs0, prev>>

\* A valid command line: lines 58-60.
ArgsOk ==
    /\ pc = "start"
    /\ ~ParseArgs(argv).bad
    /\ ~ParseArgs(argv).wantHelp
    /\ Len(argv.pos) = 1
    /\ ParseArgs(argv).paths # <<>>
    /\ dllSearchPaths' = ParseArgs(argv).paths
    /\ rootBinaryFile' = argv.pos[1]
    /\ rootBinaryDir' = parent_path(argv.pos[1])
    /\ dllArch' = UnknownArch
    /\ pc' = "open_root"
    /\ UNCHANGED <<argv, fs, exitCode, created, processed, toProcess, outs, errs,
                   located, copies, dequeued, run, faults, fs0, prev>>

(***************************************************************************)
(* main, lines 62-72: the root binary.                                     *)
(***************************************************************************)
\* getDllImports fails on the root binary: its message and return 1.
RootError_Ignored ==
    /\ pc = "open_root"
    /\ getDllImports(fs, rootBinaryFile).err
    /\ created' = TRUE
    /\ pc' = "loop"
    /\ UNCHANGED <<argv, fs, exitCode, dllSearchPaths, rootBinaryFile, rootBinaryDir,
                   dllArch, processed, toProcess, outs, errs, located, copies, dequeued,
                   run, faults, fs0, prev>>

RootError ==
    /\ pc = "open_root"
    /\ getDllImports(fs, rootBinaryFile).err
    /\ errs' = Append(errs, Line("root_error", rootBinaryFile, EmptyPath))
    /\ Exit(1)
    /\ UNCHANGED <<argv, fs, dllSearchPaths, rootBinaryFile, rootBinaryDir, dllArch,
                   created, processed, toProcess, outs, located, copies, dequeued, run, faults,
                   fs0, prev>>

\* Lines 71-72 and 95-96: the names pushed to the back of the queue, in order.
push_Front(q, names) == names \o q
push(q, names) == q \o names

\* Line 78: the set after processed.insert(import).
insert_Nothing(S, import) == S
insert(S, import) == S \cup {import}

\* Lines 62-72 with the architecture of the root binary not stored.
RootParsed_ArchNotSet ==
    /\ pc = "open_root"
    /\ ~getDllImports(fs, rootBinaryFile).err
    /\ errs' = errs \o getDllImports(fs, rootBinaryFile).diag
    /\ created' = TRUE
    /\ processed' = {}
    /\ toProcess' = push(<<>>, getDllImports(fs, rootBinaryFile).imports)
    /\ pc' = "loop"
    /\ UNCHANGED <<argv, fs, exitCode, dllSearchPaths, rootBinaryFile, rootBinaryDir,
                   dllArch, outs, located, copies, dequeued, run, faults, fs0, prev>>

\* The root binary parsed: dllArch is its architecture, processed is empty
\* and toProcess holds its imports in table order.
RootParsed ==
    /\ pc = "open_root"
    /\ ~getDllImports(fs, rootBinaryFile).err
    /\ dllArch' = getDllImports(fs, rootBinaryFile).arch
    /\ errs' = errs \o getDllImports(fs, rootBinaryFile).diag
    /\ created' = TRUE
    /\ processed' = {}
    /\ toProcess' = push(<<>>, getDllImports(fs, rootBinaryFile).imports)
    /\ pc' = "loop"
    /\ UNCHANGED <<argv, fs, exitCode, dllSearchPaths, rootBinaryFile, rootBinaryDir,
                   outs, located, copies, dequeued, run, faults, fs0, prev>>

(***************************************************************************)
(* main, lines 74-98: one iteration of the loop.                           *)
(***************************************************************************)
\* Line 75: the name taken from the front of the queue.
Normalize_Identity(s) == s
Normalize(s) == Lower(s)
Front == Normalize(Head(toProcess))

\* Line 86: the destination of the copy of fullPath.
Destination_LowerKey(dir, fullPath) == Path(dir, Lower(filename(fullPath)))
Destination(dir, fullPath) == Path(dir, filename(fullPath))

\* The record of one findImport call.
Located(import, r) ==
    [name |-> import, arch |-> dllArch, paths |-> dllSearchPaths, path |-> r.path,
     skipped |-> r.skipped, opened |-> r.opened]

\* Lines 78-79: the name was processed before.
DiscardDuplicate_NoPop ==
    /\ pc = "loop"
    /\ toProcess # <<>>
    /\ Front \in processed
    /\ UNCHANGED vars

DiscardDuplicate ==
    /\ pc = "loop"
    /\ toProcess # <<>>
    /\ dequeued' = Append(dequeued, Head(toProcess))
    /\ Front \in processed
    /\ toProcess' = Tail(toProcess)
    /\ UNCHANGED <<argv, fs, pc, exitCode, dllSearchPaths, rootBinaryFile, rootBinaryDir,
                   dllArch, created, processed, outs, errs, located, copies, run,
                   faults, fs0, prev>>

\* Lines 81-83: findImport returned the empty string.
NotFound_Fatal ==
    /\ pc = "loop"
    /\ toProcess # <<>>
    /\ Front \notin processed
    /\ findImport(fs, Front, dllArch, dllSearchPaths).path = EmptyPath
    /\ Exit(1)
    /\ UNCHANGED <<argv, fs, dllSearchPaths, rootBinaryFile, rootBinaryDir, dllArch,
                   created, processed, toProcess, outs, errs, located, copies, dequeued,
                   run, faults, fs0, prev>>

NotFound ==
    /\ pc = "loop"
    /\ toProcess # <<>>
    /\ dequeued' = Append(dequeued, Head(toProcess))
    /\ Front \notin processed
    /\ LET r == findImport(fs, Front, dllArch, dllSearchPaths)
       IN  /\ r.path = EmptyPath
           /\ processed' = insert(processed, Front)
           /\ toProcess' = Tail(toProcess)
           /\ errs' = errs \o SkippedLines(r.skipped)
           /\ located' = Append(located, Located(Front, r))
    /\ UNCHANGED <<argv, fs, pc, exitCode, dllSearchPaths, rootBinaryFile, rootBinaryDir,
                   dllArch, created, outs, copies, run, faults, fs0, prev>>

\* Lines 85-97 with a parse error of the copied file ending the run.
FoundAndCopied_ParseFatal ==
    /\ pc = "loop"
    /\ toProcess # <<>>
    /\ dequeued' = Append(dequeued, Head(toProcess))
    /\ Front \notin processed
    /\ LET r == findImport(fs, Front, dllArch, dllSearchPaths)
           fullPath == r.path
           destinationPath == Destination(rootBinaryDir, fullPath)
       IN  /\ fullPath # EmptyPath
           /\ \E outcome \in CopyOutcomes(fullPath, destinationPath) :
                /\ FailedOutcome(outcome) => faults < MaxFaults
                /\ faults' = IF FailedOutcome(outcome) THEN faults + 1 ELSE faults
                /\ fs' = copy_file(fs, fullPath, destinationPath, outcome)
                /\ copies' = Append(copies, [src |-> fullPath, dst |-> destinationPath,
                                             outcome |-> outcome])
                /\ LET imports == getDllImports(fs', fullPath)
                   IN  /\ toProcess' = push(Tail(toProcess), imports.imports)
                       /\ errs' = errs \o SkippedLines(r.skipped)
                                       \o <<Line("copy", fullPath, destinationPath)>>
                                       \o imports.diag
                       /\ IF imports.err THEN Exit(1) ELSE UNCHANGED <<pc, exitCode>>
           /\ processed' = insert(processed, Front)
           /\ located' = Append(located, Located(Front, r))
    /\ UNCHANGED <<argv, dllSearchPaths, rootBinaryFile, rootBinaryDir,
                   dllArch, created, outs, run, fs0, prev>>

\* Lines 85-97: the file was found; it is copied, whatever copy_file
\* returns, and then its imports are appended to the queue unless it
\* cannot be parsed.
FoundAndCopied ==
    /\ pc = "loop"
    /\ toProcess # <<>>
    /\ dequeued' = Append(dequeued, Head(toProcess))
    /\ Front \notin processed
    /\ LET r == findImport(fs, Front, dllArch, dllSearchPaths)
           fullPath == r.path
           destinationPath == Destination(rootBinaryDir, fullPath)
       IN  /\ fullPath # EmptyPath
           /\ \E outcome \in CopyOutcomes(fullPath, destinationPath) :
                /\ FailedOutcome(outcome) => faults < MaxFaults
                /\ faults' = IF FailedOutcome(outcome) THEN faults + 1 ELSE faults
                /\ fs' = copy_file(fs, fullPath, destinationPath, outcome)
                /\ copies' = Append(copies, [src |-> fullPath, dst |-> destinationPath,
                                             outcome |-> outcome])
                /\ LET imports == getDllImports(fs', fullPath)
                   IN  /\ toProcess' = push(Tail(toProcess), imports.imports)
                       /\ errs' = errs \o SkippedLines(r.skipped)
                                       \o <<Line("copy", fullPath, destinationPath)>>
                                       \o imports.diag
           /\ processed' = insert(processed, Front)
           /\ located' = Append(located, Located(Front, r))
    /\ UNCHANGED <<argv, pc, exitCode, dllSearchPaths, rootBinaryFile, rootBinaryDir,
                   dllArch, created, outs, run, fs0, prev>>

\* Line 100: the queue is empty.
Return ==
    /\ pc = "loop"
    /\ toProcess = <<>>
    /\ Exit(0)
    /\ UNCHANGED <<argv, fs, dllSearchPaths, rootBinaryFile, rootBinaryDir, dllArch,
                   created, processed, toProcess, outs, errs, located, copies, dequeued, run,
                   faults, fs0, prev>>

(***************************************************************************)
(* The program is run again with the same command line on the file system  *)
(* the run before left behind.                                             *)
(***************************************************************************)
Rerun ==
    /\ pc = "exit"
    /\ run < MaxRuns
    /\ run' = run + 1
    /\ prev' = [copies |-> copies, listing |-> fs["root"], exitCode |-> exitCode]
    /\ fs0' = fs
    /\ pc' = "start"
    /\ exitCode' = Running
    /\ dllSearchPaths' = <<>>
    /\ rootBinaryFile' = EmptyPath
    /\ rootBinaryDir' = ""
    /\ dllArch' = UnknownArch
    /\ created' = FALSE
    /\ processed' = {}
    /\ toProcess' = <<>>
    /\ outs' = <<>>
    /\ errs' = <<>>
    /\ located' = <<>>
    /\ copies' = <<>>
    /\ dequeued' = <<>>
    /\ UNCHANGED <<argv, fs, faults>>

Next ==
    \/ BadOption
    \/ Help
    \/ NoBinaryFile
    \/ NoSearchPath
    \/ ArgsOk
    \/ RootError
    \/ RootParsed
    \/ DiscardDuplicate
    \/ NotFound
    \/ FoundAndCopied
    \/ Return
    \/ Rerun

Spec == Init /\ [][Next]_vars

\* The state predicate ENABLED <<FoundAndCopied>>_vars: the guard of the
\* action (some outcome of the copy is always possible, and the step
\* changes dequeued).
FoundEnabled ==
    /\ pc = "loop"
    /\ toProcess # <<>>
    /\ Front \notin processed
    /\ findImport(fs, Front, dllArch, dllSearchPaths).path # EmptyPath

\* The program is sequential and nothing suspends it: a step that is
\* possible is taken.  Weak fairness of each action; for FoundAndCopied it
\* is written out with FoundEnabled in place of ENABLED.
FairSpec ==
    /\ Spec
    /\ WF_vars(BadOption) /\ WF_vars(Help) /\ WF_vars(NoBinaryFile)
    /\ WF_vars(NoSearchPath) /\ WF_vars(ArgsOk) /\ WF_vars(RootError)
    /\ WF_vars(RootParsed) /\ WF_vars(DiscardDuplicate) /\ WF_vars(NotFound)
    /\ WF_vars(Return) /\ WF_vars(Rerun)
    /\ ([]<>(~FoundEnabled) \/ []<><<FoundAndCopied>>_vars)

(***************************************************************************)
(* Properties.                                                             *)
(***************************************************************************)
\* The loop of main ended and main returned 0.
Succeeded == pc = "exit" /\ exitCode = Returned(0) /\ created
Range(q) == {q[i] : i \in DOMAIN q}
LowerAll(q) == {Lower(q[i]) : i \in DOMAIN q}

\* C1: each case-insensitive module name is passed to findImport (and so
\* inserted into processed) at most once in a run, and a step that takes
\* from the queue a spelling of a name already in processed only drops it:
\* no findImport call, no copy, nothing appended to the queue.
C1_NoRepeat ==
    \A i, j \in DOMAIN located :
        i # j => ~equals_insensitive(located[i].name, located[j].name)
C1_DropsVisited ==
    (pc = "loop" /\ toProcess # <<>> /\ Lower(Head(toProcess)) \in processed)
        => /\ located' = located
           /\ copies' = copies
           /\ fs' = fs
           /\ processed' = processed
           /\ toProcess' = Tail(toProcess)
C1_ProcessedAtMostOnce == [](C1_NoRepeat) /\ [][C1_DropsVisited]_vars

\* C1 witness: two different spellings of one name were taken from the
\* queue and findImport was called for only one of them.
C1_Witness ==
    /\ \E i, j \in DOMAIN dequeued :
         /\ i < j
         /\ dequeued[i] # dequeued[j]
         /\ Lower(dequeued[i]) = Lower(dequeued[j])
    /\ Len(located) < Len(dequeued)
    /\ Cardinality(LowerAll(dequeued)) = Len(located)

\* C2: once the root binary has parsed, the queue eventually becomes empty
\* and the run returns 0, whatever the import graph.
C2_Terminates == (pc = "loop") ~> (Succeeded /\ toProcess = <<>>)

\* C2 witness: a run returned 0 after copying two modules that import each
\* other.
ImportsOf(p) == LowerAll(getDllImports(fs0, p).imports)
C2_Witness ==
    /\ Succeeded
    /\ \E i, j \in DOMAIN copies :
         /\ i # j
         /\ Lower(copies[j].src.name) \in ImportsOf(copies[i].src)
         /\ Lower(copies[i].src.name) \in ImportsOf(copies[j].src)

\* The least set that holds the lower-cased imports of the root binary and,
\* with a name that findImport resolves to a file getDllImports parses, the
\* lower-cased imports of that file; on the file system of the run's start.
Resolved(n) == findImport(fs0, n, getDllImports(fs0, RootPath).arch, ParseArgs(argv).paths).path
ClosureStep(S) ==
    S \cup LowerAll(getDllImports(fs0, RootPath).imports)
      \cup UNION {IF Resolved(n) # EmptyPath THEN ImportsOf(Resolved(n)) ELSE {} : n \in S}
RECURSIVE Closure(_)
Closure(S) == IF ClosureStep(S) = S THEN S ELSE Closure(ClosureStep(S))

\* C3: when a run returns 0, processed is that least set, and the names a
\* copy was attempted for are exactly its names that findImport resolves.
C3_Closure ==
    Succeeded =>
        /\ processed = Closure({})
        /\ {Lower(copies[i].src.name) : i \in DOMAIN copies}
             = {n \in Closure({}) : Resolved(n) # EmptyPath}

(***************************************************************************)
(* The Module Locator on the directories as they are: what a directory     *)
(* holds for a name and an architecture.                                   *)
(***************************************************************************)
Keys == {Lower(n) : n \in ImportNames}
Openable(d) == d \in DOMAIN fs
NameMatch(d, i, n) == equals_insensitive(fs[d][i].name, n)
\* Entry i of directory d is a COFF object of architecture a.
HasArch(d, i, a) == fs[d][i].data.kind = "coff" /\ fs[d][i].data.arch = a
\* Entry i of directory d is a COFF object of another architecture than a.
OtherArch(d, i, a) == fs[d][i].data.kind = "coff" /\ fs[d][i].data.arch # a
GoodIn(d, n, a) == {i \in DOMAIN fs[d] : NameMatch(d, i, n) /\ HasArch(d, i, a)}
\* The search paths whose directory holds a file of name n and architecture a.
GoodPaths(n, a, paths) == {k \in DOMAIN paths : Openable(paths[k]) /\ GoodIn(paths[k], n, a) # {}}
Find(n) == findImport(fs, n, dllArch, dllSearchPaths)
InSeq(x, q) == \E i \in DOMAIN q : q[i] = x
CopySources == {copies[i].src : i \in DOMAIN copies}
SkippedInRun == UNION {Range(located[i].skipped) : i \in DOMAIN located}

\* C4 as claimed: whenever an earlier search directory holds a file that
\* matches the name and has another architecture than the root binary, and a
\* later one holds a file of the same name and of the root's architecture,
\* findImport returns the later file and reports the earlier one skipped.
C4_ReturnsLaterFile ==
    pc = "loop" =>
        \A n \in Keys : \A k1, k2 \in DOMAIN dllSearchPaths :
            (k1 < k2 /\ Openable(dllSearchPaths[k1]) /\ Openable(dllSearchPaths[k2])) =>
                \A i1 \in DOMAIN fs[dllSearchPaths[k1]] : \A i2 \in DOMAIN fs[dllSearchPaths[k2]] :
                    ( /\ NameMatch(dllSearchPaths[k1], i1, n)
                      /\ OtherArch(dllSearchPaths[k1], i1, dllArch)
                      /\ fs[dllSearchPaths[k2]][i2].name = fs[dllSearchPaths[k1]][i1].name
                      /\ HasArch(dllSearchPaths[k2], i2, dllArch) )
                    => /\ Find(n).path = Path(dllSearchPaths[k2], fs[dllSearchPaths[k2]][i2].name)
                       /\ InSeq(Path(dllSearchPaths[k1], fs[dllSearchPaths[k1]][i1].name),
                                Find(n).skipped)

\* File i2 of search path k2 is the first file in scan order that matches
\* name n and has architecture a.
FirstGood(n, a, paths, k2, i2) ==
    /\ \A k \in DOMAIN paths : (k < k2 /\ Openable(paths[k])) => GoodIn(paths[k], n, a) = {}
    /\ \A i \in GoodIn(paths[k2], n, a) : i2 <= i

\* C4 amended: the same, provided no file that matches the name and has the
\* root's architecture comes before the later file in scan order (in an
\* earlier directory, or earlier in the later file's directory); and no file
\* reported skipped in a run is the source of a copy of that run.
C4_SelectsArchitecture ==
    /\ pc = "loop" =>
        \A n \in Keys : \A k1, k2 \in DOMAIN dllSearchPaths :
            (k1 < k2 /\ Openable(dllSearchPaths[k1]) /\ Openable(dllSearchPaths[k2])) =>
                \A i1 \in DOMAIN fs[dllSearchPaths[k1]] : \A i2 \in DOMAIN fs[dllSearchPaths[k2]] :
                    ( /\ NameMatch(dllSearchPaths[k1], i1, n)
                      /\ OtherArch(dllSearchPaths[k1], i1, dllArch)
                      /\ NameMatch(dllSearchPaths[k2], i2, n)
                      /\ HasArch(dllSearchPaths[k2], i2, dllArch)
                      /\ FirstGood(n, dllArch, dllSearchPaths, k2, i2) )
                    => /\ Find(n).path = Path(dllSearchPaths[k2], fs[dllSearchPaths[k2]][i2].name)
                       /\ InSeq(Path(dllSearchPaths[k1], fs[dllSearchPaths[k1]][i1].name),
                                Find(n).skipped)
    /\ CopySources \cap SkippedInRun = {}

\* C4 witness: a file of another architecture in an earlier directory was
\* reported skipped and the file found in a later directory was copied.
C4_Witness ==
    \E i \in DOMAIN located : \E j \in DOMAIN located[i].skipped :
        /\ located[i].path # EmptyPath
        /\ located[i].skipped[j].dir # located[i].path.dir
        /\ getFile(fs0, located[i].skipped[j]).data.kind = "coff"
        /\ getFile(fs0, located[i].skipped[j]).data.arch # located[i].arch
        /\ located[i].path \in CopySources

\* The least element of a nonempty set of numbers.
Min(S) == CHOOSE x \in S : \A y \in S : x <= y

\* C5: when two or more search directories hold a file that matches the
\* name and has the root's architecture, findImport returns a file of the
\* one listed first, and opens no directory listed after it.
C5_EarliestPathWins ==
    pc = "loop" =>
        \A n \in Keys :
            Cardinality(GoodPaths(n, dllArch, dllSearchPaths)) >= 2 =>
                /\ Find(n).path.dir = dllSearchPaths[Min(GoodPaths(n, dllArch, dllSearchPaths))]
                /\ \A j \in DOMAIN Find(n).opened :
                       Find(n).opened[j] <= Min(GoodPaths(n, dllArch, dllSearchPaths))

\* C5 witness: a file was found and copied from the first search directory
\* while the second one, never opened, held a matching file as well.
C5_Witness ==
    \E i \in DOMAIN located :
        /\ Cardinality(GoodPaths(located[i].name, located[i].arch, located[i].paths)) >= 2
        /\ located[i].path.dir = located[i].paths[1]
        /\ located[i].opened = <<1>>
        /\ located[i].path \in CopySources

\* C6: a step that takes from the queue a name findImport does not find
\* copies nothing, appends nothing, marks the name processed and stays in
\* the loop with the rest of the queue; and the loop is only left with the
\* queue empty, every name taken from it processed, and status 0.
C6_MissStep ==
    ( /\ pc = "loop"
      /\ toProcess # <<>>
      /\ Lower(Head(toProcess)) \notin processed
      /\ findImport(fs, Lower(Head(toProcess)), dllArch, dllSearchPaths).path = EmptyPath )
    => /\ copies' = copies
       /\ fs' = fs
       /\ toProcess' = Tail(toProcess)
       /\ processed' = processed \cup {Lower(Head(toProcess))}
       /\ pc' = "loop"
       /\ exitCode' = Running
C6_LoopExit ==
    created =>
        \/ pc = "loop" /\ exitCode = Running
        \/ /\ pc = "exit"
           /\ exitCode = Returned(0)
           /\ toProcess = <<>>
           /\ LowerAll(dequeued) = processed
C6_MissingTolerated == [][C6_MissStep]_vars /\ [](C6_LoopExit)

\* C6 witness: a run returned 0 in which a name was not found and names
\* queued behind it were processed afterwards.
C6_Witness ==
    /\ Succeeded
    /\ \E i \in DOMAIN located :
         /\ located[i].path = EmptyPath
         /\ i < Len(located)

\* C7: every copy that failed has a diagnostic of the failure on the error
\* stream, and the run goes on to return 0.
CopyErrorLines == {i \in DOMAIN errs : errs[i].t = "copy_error"}
FailedCopies == {i \in DOMAIN copies : FailedOutcome(copies[i].outcome)}
C7_FailureReported ==
    /\ Cardinality(CopyErrorLines) = Cardinality(FailedCopies)
    /\ (pc = "exit" /\ created) => exitCode = Returned(0)

\* C8: when getDllImports fails on the root binary, main writes the error
\* and returns 1: findImport was not called, nothing was copied, processed
\* and toProcess were not constructed.
C8_RootStep ==
    (pc = "open_root" /\ getDllImports(fs, rootBinaryFile).err)
    => /\ pc' = "exit"
       /\ exitCode' = Returned(1)
       /\ errs' = Append(errs, Line("root_error", rootBinaryFile, EmptyPath))
       /\ located' = <<>>
       /\ copies' = <<>>
       /\ created' = FALSE
       /\ fs' = fs
C8_RootErrorFatal == [][C8_RootStep]_vars

\* C8 witness: a run ended with the root binary's parse error.
C8_Witness ==
    /\ pc = "exit"
    /\ exitCode = Returned(1)
    /\ getDllImports(fs, rootBinaryFile).err
    /\ InSeq(Line("root_error", rootBinaryFile, EmptyPath), errs)

\* The command line has exactly one positional argument and no -L.
OnePositionalNoL ==
    /\ Len(argv.pos) = 1
    /\ \A i \in DOMAIN argv.opts : argv.opts[i].o # "L"

\* The run ended on the missing search path: a message, status 1, the root
\* binary never opened and nothing copied.
EndedOnNoSearchPath ==
    /\ exitCode = Returned(1)
    /\ errs = <<Msg("no_search_path")>>
    /\ rootBinaryFile = EmptyPath
    /\ dllArch = UnknownArch
    /\ ~created
    /\ located = <<>>
    /\ copies = <<>>
    /\ fs = fs0

\* C9 as claimed: with exactly one positional argument and no -L, the run
\* ends with an error message and status 1 before the root binary is opened.
C9_NoSearchPathFails ==
    /\ OnePositionalNoL => pc \in {"start", "exit"}
    /\ (OnePositionalNoL /\ pc = "exit") => EndedOnNoSearchPath

\* C9 amended: the same, when in addition neither -h nor an unknown option
\* is given.
NoOtherOption == \A i \in DOMAIN argv.opts : argv.opts[i].o = "L"
C9_NoSearchPathFailsWithoutHelp ==
    /\ OnePositionalNoL => pc \in {"start", "exit"}
    /\ (OnePositionalNoL /\ NoOtherOption /\ pc = "exit") => EndedOnNoSearchPath

\* C9 witness: such a run ended, with a root binary that would have parsed.
C9_Witness ==
    /\ OnePositionalNoL
    /\ NoOtherOption
    /\ pc = "exit"
    /\ ~getDllImports(fs, argv.pos[1]).err

\* C10: a second run that returned 0, after a first run that returned 0 and
\* with no copy reported failed, wrote the same files as the first run and
\* left the root binary's directory as the first run left it.
Written(cs) == {cs[i].dst : i \in DOMAIN cs}
C10_Idempotent ==
    (Succeeded /\ run = 2 /\ prev.exitCode = Returned(0) /\ faults = 0)
    => /\ Written(copies) = Written(prev.copies)
       /\ fs["root"] = prev.listing

\* The last copy_file call of the run.
LastCopy(cs) == cs[Len(cs)]

\* C11: a step that finds a file for the name at the front of the queue and
\* then fails to parse it (line 91) appends nothing to the queue, has called
\* copy_file on the file all the same, stays in the loop with the rest of
\* the queue and leaves the exit status alone; the run then returns 0.
C11_ParseFailStep ==
    ( /\ pc = "loop"
      /\ toProcess # <<>>
      /\ Lower(Head(toProcess)) \notin processed
      /\ Find(Lower(Head(toProcess))).path # EmptyPath
      /\ getDllImports(fs', Find(Lower(Head(toProcess))).path).err )
    => /\ toProcess' = Tail(toProcess)
       /\ Len(copies') = Len(copies) + 1
       /\ LastCopy(copies').src = Find(Lower(Head(toProcess))).path
       /\ LastCopy(copies').dst = Path(rootBinaryDir, Find(Lower(Head(toProcess))).path.name)
       /\ fs' = copy_file(fs, LastCopy(copies').src, LastCopy(copies').dst,
                          LastCopy(copies').outcome)
       /\ pc' = "loop"
       /\ exitCode' = Running
C11_ExitsZero == (created /\ pc = "exit") => exitCode = Returned(0)
RootArch == getDllImports(fs0, argv.pos[1]).arch

\* C12: every findImport call of a run is made with the architecture of the
\* root binary: dllArch holds it from the parse of the root binary on, and
\* no step of the loop, whatever file it parses, changes dllArch.
C12_LoopKeepsArch == pc = "loop" => dllArch' = dllArch
C12_ArchOfRoot ==
    created =>
        /\ dllArch = RootArch
        /\ dllArch \in Archs
        /\ \A i \in DOMAIN located : located[i].arch = RootArch
C12_RequiredArchIsRoots == [](C12_ArchOfRoot) /\ [][C12_LoopKeepsArch]_vars

\* C12 witness: findImport was called again after a dependency was found,
\* copied and parsed, in a run whose search directories hold a file of the
\* other architecture.
C12_Witness ==
    /\ Len(located) >= 2
    /\ located[1].path # EmptyPath
    /\ ~getDllImports(fs, located[1].path).err
    /\ located[2].arch = RootArch
    /\ \E k \in DOMAIN dllSearchPaths :
         /\ Openable(dllSearchPaths[k])
         /\ \E i \in DOMAIN fs[dllSearchPaths[k]] : OtherArch(dllSearchPaths[k], i, RootArch)

\* The import names of the root binary as they were when the run started.
RootImports == getDllImports(fs0, argv.pos[1]).imports

\* The import names of the files copy_file was called on, from call k on, in
\* the order of the calls and in table order.
RECURSIVE ImportsOfCopies(_)
ImportsOfCopies(k) ==
    IF k > Len(copies) THEN <<>>
    ELSE getDllImports(fs, copies[k].src).imports \o ImportsOfCopies(k + 1)

\* C13: the queue is first-in-first-out.  Every step of the loop takes the
\* name at the front and appends at the back; the names taken so far,
\* followed by the names waiting, are the imports of the root binary in
\* table order followed by the imports of each file found, in the order the
\* files were found and in table order.  So the root's imports all leave
\* the queue before any name a dependency contributed.
C13_TakesFront ==
    (pc = "loop" /\ toProcess # <<>>)
    => /\ dequeued' = Append(dequeued, Head(toProcess))
       /\ Len(toProcess') >= Len(toProcess) - 1
       /\ SubSeq(toProcess', 1, Len(toProcess) - 1) = Tail(toProcess)
C13_EnqueueOrder ==
    created => dequeued \o toProcess = RootImports \o ImportsOfCopies(1)
C13_Fifo == [](C13_EnqueueOrder) /\ [][C13_TakesFront]_vars

\* C13 witness: the root binary imports two modules; the first was found
\* and the name it imports left the queue after the root's second import,
\* a different name.
C13_Witness ==
    /\ created
    /\ Len(RootImports) = 2
    /\ Len(dequeued) >= 3
    /\ Len(copies) >= 1
    /\ SubSeq(dequeued, 1, 2) = RootImports
    /\ equals_insensitive(copies[1].src.name, dequeued[1])
    /\ getDllImports(fs, copies[1].src).imports # <<>>
    /\ dequeued[3] = getDllImports(fs, copies[1].src).imports[1]
    /\ Lower(dequeued[3]) # Lower(dequeued[2])
    /\ Lower(dequeued[1]) # Lower(dequeued[2])

\* The search paths without the directories that cannot be opened.
OpenablePaths(paths) == SelectSeq(paths, Openable)
HasUnopenable(paths) == \E k \in DOMAIN paths : ~Openable(paths[k])
\* The directories findImport opened, by name.
OpenedDirs(paths, r) == [j \in DOMAIN r.opened |-> paths[r.opened[j]]]

\* C14: a search directory that cannot be opened is passed over.  For
\* every name, findImport returns the same path, writes the same lines and
\* opens the same directories as it does on the search path list without
\* the directories that cannot be opened; when it finds nothing it has
\* opened every directory that can be opened; and no line written in a run
\* names a directory that cannot be opened.
C14_SkipsUnopenable ==
    /\ pc = "loop" =>
         \A n \in Keys :
            LET r == Find(n)
                q == findImport(fs, n, dllArch, OpenablePaths(dllSearchPaths))
            IN  /\ r.path = q.path
                /\ r.skipped = q.skipped
                /\ OpenedDirs(dllSearchPaths, r) = OpenedDirs(OpenablePaths(dllSearchPaths), q)
                /\ r.path = EmptyPath =>
                      OpenedDirs(dllSearchPaths, r) = OpenablePaths(dllSearchPaths)
    /\ \A i \in DOMAIN errs : Openable(errs[i].a.dir) \/ errs[i].a = EmptyPath

\* C14 witness: the first search directory cannot be opened, and a file
\* found in the second one was copied.
C14_Witness ==
    \E i \in DOMAIN located :
        /\ Len(located[i].paths) = 2
        /\ ~Openable(located[i].paths[1])
        /\ located[i].path.dir = located[i].paths[2]
        /\ located[i].opened = <<2>>
        /\ located[i].path \in CopySources

\* Entry i of directory d is not a COFF object.
Unparsable(d, i) == fs[d][i].data.kind # "coff"
\* The first file in scan order that matches name n and has architecture a,
\* or EmptyPath.
FirstGoodPath(n, a, paths) ==
    IF GoodPaths(n, a, paths) = {} THEN EmptyPath
    ELSE LET d == paths[Min(GoodPaths(n, a, paths))]
         IN  Path(d, fs[d][Min(GoodIn(d, n, a))].name)
\* A path that names no file: a name no directory holds.
Absent(d) == Path(d, chr \o chr)

\* C15: checkFileArchitecture is FALSE for a file that cannot be opened and
\* for a file that is not a COFF object, and otherwise TRUE exactly when
\* the file's architecture is the required one.  So findImport passes over
\* a file that matches the name and cannot be parsed: it returns the first
\* file in scan order that matches the name and has the architecture, or
\* the empty path when there is none.
C15_FilterTotal ==
    /\ \A d \in DOMAIN fs : \A a \in Archs \cup {UnknownArch} :
         /\ checkFileArchitecture(fs, Absent(d), a) = FALSE
         /\ \A i \in DOMAIN fs[d] :
              /\ Unparsable(d, i) => checkFileArchitecture(fs, Path(d, fs[d][i].name), a) = FALSE
              /\ checkFileArchitecture(fs, Path(d, fs[d][i].name), a) = HasArch(d, i, a)
    /\ \A a \in Archs : checkFileArchitecture(fs, Absent("nodir"), a) = FALSE
    /\ pc = "loop" =>
         \A n \in Keys : Find(n).path = FirstGoodPath(n, dllArch, dllSearchPaths)

\* C15 witness: a file that matches the name and is not a COFF object was
\* passed over, and a file that comes after it in scan order was found and
\* copied.
C15_Witness ==
    \E i \in DOMAIN located : \E j \in DOMAIN located[i].skipped :
        /\ located[i].path # EmptyPath
        /\ getFile(fs0, located[i].skipped[j]).data = NotCOFF
        /\ ~getFile(fs0, located[i].skipped[j]).err
        /\ equals_insensitive(located[i].skipped[j].name, located[i].name)
        /\ located[i].path \in CopySources

\* The names of the files of a directory listing.
NamesIn(l) == {l[i].name : i \in DOMAIN l}
\* The file of name n in directory d of file system f is as it is in g.
SameFile(f, g, d, n) ==
    /\ HasFile(f, Path(d, n)) <=> HasFile(g, Path(d, n))
    /\ getFile(f, Path(d, n)) = getFile(g, Path(d, n))

\* C16: every copy_file call of a run has as destination the directory of
\* the root binary joined with the file name of the source as the
\* directory entry spells it; the line written for it names that source and
\* that destination; and a run changes no file but the destinations of its
\* copies: the other directories and the other files of the root binary's
\* directory are as they were when the run started.
C16_DestinationInRootDir ==
    /\ \A i \in DOMAIN copies :
         /\ copies[i].dst.dir = parent_path(argv.pos[1])
         /\ copies[i].dst.name = copies[i].src.name
         /\ copies[i].src.name \in NamesIn(fs[copies[i].src.dir])
         /\ InSeq(Line("copy", copies[i].src, copies[i].dst), errs)
    /\ \A d \in DOMAIN fs : \A n \in NamesIn(fs[d]) \cup NamesIn(fs0[d]) :
         Path(d, n) \notin Written(copies) => SameFile(fs, fs0, d, n)

\* C16 witness: a file whose name has an upper-case letter was found for an
\* import spelled in lower case, and its copy, of the same bytes, carries
\* the name of the file.
C16_Witness ==
    \E i \in DOMAIN copies :
        /\ copies[i].outcome = "ok"
        /\ copies[i].dst.name # Lower(copies[i].dst.name)
        /\ ~InSeq(copies[i].dst.name, dequeued)
        /\ InSeq(Lower(copies[i].dst.name), dequeued)
        /\ ~HasFile(fs0, copies[i].dst)
        /\ getFile(fs, copies[i].dst) = getFile(fs0, copies[i].src)

\* The names of the entries of a table that have one, in table order.
HasName(e) == e.ok
NamesOf(tbl) == [i \in DOMAIN SelectSeq(tbl, HasName) |-> SelectSeq(tbl, HasName)[i].name]
NoName(tbl) == {i \in DOMAIN tbl : ~tbl[i].ok}
AllPaths == UNION {{Path(d, fs[d][i].name) : i \in DOMAIN fs[d]} : d \in DOMAIN fs}

\* C17: for every file that is a COFF object, getDllImports succeeds and
\* returns the names of the import directory entries in table order, then
\* the names of the delay-import directory entries in table order, a name
\* as many times as it occurs; an entry whose name cannot be decoded gives
\* no name and one diagnostic line.  The queue built from the root binary
\* holds exactly that list.
C17_ImportList ==
    /\ \A p \in AllPaths :
         LET data == getFile(fs, p).data
             r == getDllImports(fs, p)
         IN  IF data.kind = "coff"
             THEN /\ ~r.err
                  /\ r.arch = data.arch
                  /\ Len(r.imports) = Len(NamesOf(data.imports)) + Len(NamesOf(data.delay))
                  /\ SubSeq(r.imports, 1, Len(NamesOf(data.imports))) = NamesOf(data.imports)
                  /\ SubSeq(r.imports, Len(NamesOf(data.imports)) + 1, Len(r.imports))
                       = NamesOf(data.delay)
                  /\ Len(r.diag) = Cardinality(NoName(data.imports)) + Cardinality(NoName(data.delay))
             ELSE r.err
    /\ (created /\ dequeued = <<>>) =>
         LET data == getFile(fs0, argv.pos[1]).data
         IN  /\ toProcess = NamesOf(data.imports) \o NamesOf(data.delay)
             /\ Len(errs) = Cardinality(NoName(data.imports)) + Cardinality(NoName(data.delay))

\* C17 witness: the root binary was parsed; its import table has an entry
\* without a name before a named one, its delay-import table names one
\* module twice, and the queue holds the import table's name followed by
\* the two delay-import names.
C17_Witness ==
    /\ created
    /\ dequeued = <<>>
    /\ getFile(fs0, argv.pos[1]).data.imports = <<Undecodable, Entry(chb)>>
    /\ getFile(fs0, argv.pos[1]).data.delay = <<Entry(cha), Entry(cha)>>
    /\ toProcess = <<chb, cha, cha>>
    /\ errs = <<Msg("name_error")>>

\* File p is an entry of one of the search directories of the command line.
InSearchDir(f, p) == InSeq(p.dir, ParseArgs(argv).paths) /\ HasFile(f, p)

\* C18: in every state of a run, every file copy_file was called on is an
\* entry of a search directory, its name equals, case aside, a name in
\* processed, and it was a COFF object of the root binary's architecture
\* when the run started; and at the step that copies it, it is one in the
\* file system of that moment.
C18_CopiedFiles ==
    \A i \in DOMAIN copies :
        /\ InSearchDir(fs0, copies[i].src)
        /\ InSearchDir(fs, copies[i].src)
        /\ \E n \in processed : equals_insensitive(copies[i].src.name, n)
        /\ getFile(fs0, copies[i].src).data.kind = "coff"
        /\ getFile(fs0, copies[i].src).data.arch = RootArch
C18_CopyStep ==
    copies' # copies =>
        \/ copies' = <<>>
        \/ /\ Len(copies') = Len(copies) + 1
           /\ getFile(fs, LastCopy(copies').src).data.kind = "coff"
           /\ getFile(fs, LastCopy(copies').src).data.arch = dllArch
           /\ dllArch = RootArch
C18_OnlyMatchingFilesCopied == [](C18_CopiedFiles) /\ [][C18_CopyStep]_vars

\* C18 witness: a file was copied after a file of the same name that is not
\* a COFF object and a file of the same name of the other architecture
\* were passed over.
C18_Witness ==
    \E i \in DOMAIN located : \E j, k \in DOMAIN located[i].skipped :
        /\ located[i].path \in CopySources
        /\ getFile(fs0, located[i].skipped[j]).data = NotCOFF
        /\ getFile(fs0, located[i].skipped[k]).data.kind = "coff"
        /\ getFile(fs0, located[i].skipped[k]).data.arch # RootArch

\* The copy_file calls of the run whose source has name n, case aside.
CopiesOf(n) == {i \in DOMAIN copies : equals_insensitive(copies[i].src.name, n)}

\* C19: in one run there is at most one copy_file call for each name in
\* processed, every call belongs to one, and no two calls have the same
\* destination, nor destinations whose file names differ in case only.
C19_OneCopyPerName ==
    /\ \A n \in processed : Cardinality(CopiesOf(n)) <= 1
    /\ \A i \in DOMAIN copies : \E n \in processed : i \in CopiesOf(n)
    /\ Len(copies) <= Cardinality(processed)
    /\ \A i, j \in DOMAIN copies :
         i # j => /\ copies[i].dst # copies[j].dst
                  /\ ~equals_insensitive(copies[i].dst.name, copies[j].dst.name)

\* C19 witness: two files were copied in a run in which a name came off the
\* queue more than once.
C19_Witness ==
    /\ Len(copies) >= 2
    /\ Len(dequeued) > Cardinality(LowerAll(dequeued))
    /\ \E i, j \in DOMAIN dequeued :
         /\ i < j
         /\ Lower(dequeued[i]) = Lower(dequeued[j])
         /\ CopiesOf(dequeued[i]) # {}

\* C20: no copy_file call has its source as its destination, and the root
\* binary is neither the source nor the destination of one.
C20_NoSelfCopy ==
    \A i \in DOMAIN copies :
        /\ copies[i].src # copies[i].dst
        /\ copies[i].src # rootBinaryFile
        /\ copies[i].dst # rootBinaryFile

====
